---- MODULE Spec2Model ----
(***************************************************************************)
(* A model of src/app.py, the PPTX find/replace service:                   *)
(*   - Replacement (the rule model) and its validation,                    *)
(*   - apply_replacements_to_text (the text transformer),                  *)
(*   - replace_text_in_presentation (the presentation walker),             *)
(*   - modify_pptx (the request handler).                                  *)
(*                                                                         *)
(* A text is a sequence of characters, each character a one-element        *)
(* string.  The alphabet is small but holds a case pair ("a", "A"), a      *)
(* regex wildcard ("."), a character that makes a pattern invalid ("["),   *)
(* and the backslash, which is special both in a pattern and in a          *)
(* replacement template.  "BEL" stands for the one character U+0007, which *)
(* the template escape \a produces.                                        *)
(***************************************************************************)
EXTENDS Integers, Sequences, FiniteSets, TLC

\* ------------------------------------------------------------------ bounds

MaxText == 2
MaxFind == 1
MaxRepl == 1
MaxRules == 2
MaxSlides == 2

\* ---------------------------------------------------------------- alphabet

BS == "\\"
BEL == "BEL"
Chars == {"a", "A", ".", "[", BS}

\* All texts over Chars of length at most n.
Strs(n) == UNION {[1..k -> Chars] : k \in 0..n}

\* ------------------------------------------------- results of a call

\* A call either returns a text or raises.
Ok(s) == [ok |-> TRUE, s |-> s]
Raise == [ok |-> FALSE, s |-> <<>>]

\* ------------------------------------------------------ str.replace

\* Whether f occurs in t at position i (1-based).
OccursAt(t, i, f) ==
    /\ i + Len(f) - 1 <= Len(t)
    /\ \A k \in 1..Len(f) : t[i + k - 1] = f[k]

RECURSIVE ReplaceFrom(_, _, _, _)
\* str.replace on the suffix of t that starts at i, for a non-empty f:
\* leftmost occurrences first, none overlapping.
ReplaceFrom(t, i, f, r) ==
    IF i > Len(t) THEN <<>>
    ELSE IF OccursAt(t, i, f) THEN r \o ReplaceFrom(t, i + Len(f), f, r)
    ELSE <<t[i]>> \o ReplaceFrom(t, i + 1, f, r)

RECURSIVE Interleave(_, _, _)
\* str.replace with an empty f: r before every character and at the end.
Interleave(t, i, r) ==
    IF i > Len(t) THEN r
    ELSE r \o <<t[i]>> \o Interleave(t, i + 1, r)

\* A faulty str.replace: the whole text gives way to r when f occurs in it.
StrReplaceDropsRest(t, f, r) ==
    IF f = <<>> THEN Interleave(t, 1, r)
    ELSE IF \E i \in 1..Len(t) : OccursAt(t, i, f) THEN r
    ELSE t

\* out.replace(find, replace)
StrReplace(t, f, r) ==
    IF f = <<>> THEN Interleave(t, 1, r) ELSE ReplaceFrom(t, 1, f, r)

\* ------------------------------------------------------------ module re

\* A compiled pattern is a sequence of atoms: a literal character, any
\* character ("."), or the start-of-text anchor (\A).
Lit(c) == [k |-> "lit", c |-> c]
AnyChar == [k |-> "any", c |-> ""]
Bos == [k |-> "bos", c |-> ""]

\* The atom an unescaped pattern character stands for.
PlainAtom(c) == IF c = "." THEN AnyChar ELSE Lit(c)

\* The atom an escaped pattern character stands for: \a is U+0007, \A the
\* start-of-text anchor, any other escaped character itself.
EscapedAtom(c) == IF c = "a" THEN Lit(BEL) ELSE IF c = "A" THEN Bos ELSE Lit(c)

RECURSIVE PatternOk(_, _)
\* Whether re.compile accepts the pattern text p from position i.  "[" opens
\* a character set that nothing in the alphabet closes; a backslash escapes
\* the next character and is an error at the end of the pattern.
PatternOk(p, i) ==
    IF i > Len(p) THEN TRUE
    ELSE IF p[i] = "[" THEN FALSE
    ELSE IF p[i] = BS THEN i < Len(p) /\ PatternOk(p, i + 2)
    ELSE PatternOk(p, i + 1)

RECURSIVE PatternAtoms(_, _)
\* The atoms of a pattern text that re.compile accepts.
PatternAtoms(p, i) ==
    IF i > Len(p) THEN <<>>
    ELSE IF p[i] = BS THEN <<EscapedAtom(p[i + 1])>> \o PatternAtoms(p, i + 2)
    ELSE <<PlainAtom(p[i])>> \o PatternAtoms(p, i + 1)

RECURSIVE TemplateOk(_, _)
\* Whether re.sub accepts the replacement template r from position i: an
\* escaped ASCII letter that is no known escape (\A) and a backslash at the
\* end are re.error.  The alphabet has no digit, so no group reference.
TemplateOk(r, i) ==
    IF i > Len(r) THEN TRUE
    ELSE IF r[i] = BS THEN i < Len(r) /\ r[i + 1] # "A" /\ TemplateOk(r, i + 2)
    ELSE TemplateOk(r, i + 1)

\* What an escape of the template stands for: \\ is one backslash, \a is
\* U+0007, an escaped non-letter is left as it is.
EscapedText(c) ==
    IF c = BS THEN <<BS>> ELSE IF c = "a" THEN <<BEL>> ELSE <<BS, c>>

RECURSIVE TemplateText(_, _)
\* The text an accepted template stands for.
TemplateText(r, i) ==
    IF i > Len(r) THEN <<>>
    ELSE IF r[i] = BS THEN EscapedText(r[i + 1]) \o TemplateText(r, i + 2)
    ELSE <<r[i]>> \o TemplateText(r, i + 1)

\* Case folding under re.IGNORECASE.
Lower(c) == IF c = "A" THEN "a" ELSE c

CharMatches(atom, c, ic) ==
    \/ atom.k = "any"
    \/ atom.k = "lit" /\ (IF ic THEN Lower(atom.c) = Lower(c) ELSE atom.c = c)

RECURSIVE MatchEnd(_, _, _, _, _)
\* The position after the match of atoms[n..] against t at position i, or 0
\* when there is no match.  \A matches only where nothing precedes.
MatchEnd(atoms, n, t, i, ic) ==
    IF n > Len(atoms) THEN i
    ELSE IF atoms[n].k = "bos" THEN
        IF i = 1 THEN MatchEnd(atoms, n + 1, t, i, ic) ELSE 0
    ELSE IF i <= Len(t) /\ CharMatches(atoms[n], t[i], ic)
        THEN MatchEnd(atoms, n + 1, t, i + 1, ic)
    ELSE 0

RECURSIVE SubFrom(_, _, _, _, _)
RECURSIVE SubStep(_, _, _, _, _, _)
\* pattern.sub on the suffix of t that starts at i: every non-overlapping
\* match, leftmost first, is replaced by rep; an empty match is replaced and
\* the character after it kept.
SubFrom(atoms, rep, t, i, ic) ==
    SubStep(atoms, rep, t, i, ic, MatchEnd(atoms, 1, t, i, ic))

\* The same, e being where the match at i ends (0: no match at i).
SubStep(atoms, rep, t, i, ic, e) ==
    IF i > Len(t) THEN (IF e = i THEN rep ELSE <<>>)
    ELSE IF e > i THEN rep \o SubFrom(atoms, rep, t, e, ic)
    ELSE IF e = i THEN rep \o <<t[i]>> \o SubFrom(atoms, rep, t, i + 1, ic)
    ELSE <<t[i]>> \o SubFrom(atoms, rep, t, i + 1, ic)

\* re.sub(pattern, repl, text, flags): the pattern is compiled, then the
\* template, then the text is searched; an error of either is re.error.
ReSub(pattern, repl, t, ic) ==
    IF ~PatternOk(pattern, 1) \/ ~TemplateOk(repl, 1) THEN Raise
    ELSE Ok(SubFrom(PatternAtoms(pattern, 1), TemplateText(repl, 1), t, 1, ic))

RECURSIVE ReEscape(_, _)
\* re.escape: a backslash before every character that is special in a pattern.
ReEscape(f, i) ==
    IF i > Len(f) THEN <<>>
    ELSE (IF f[i] \in {".", "[", BS} THEN <<BS, f[i]>> ELSE <<f[i]>>)
         \o ReEscape(f, i + 1)

\* ----------------------------------------------------- Replacement

Replacement(find, replace, regex, ignore_case) ==
    [find |-> find, replace |-> replace, regex |-> regex, ignore_case |-> ignore_case]

\* -------------------------------------- apply_replacements_to_text

\* A faulty except branch: the re.error is raised again.
RegexFallbackRaises(r, out) == Raise

\* The except branch: out.replace(r.find, r.replace)
RegexFallback(r, out) == Ok(StrReplace(out, r.find, r.replace))

\* try: res, except re.error: handler.
OnError(res, handler) == IF res.ok THEN res ELSE handler

\* The regex branch: re.sub, and the literal replacement on re.error.
RegexBranch(r, out) ==
    OnError(ReSub(r.find, r.replace, out, r.ignore_case), RegexFallback(r, out))

\* The case-insensitive literal branch: re.compile(re.escape(find),
\* IGNORECASE).sub(replace, out).  Nothing catches its re.error.
IgnoreCaseBranch(r, out) == ReSub(ReEscape(r.find, 1), r.replace, out, TRUE)

\* The case-sensitive literal branch: out.replace(find, replace).
LiteralBranch(r, out) == Ok(StrReplace(out, r.find, r.replace))

\* One turn of the loop over the replacements.
ApplyRule(r, out) ==
    IF r.regex THEN RegexBranch(r, out)
    ELSE IF r.ignore_case THEN IgnoreCaseBranch(r, out)
    ELSE LiteralBranch(r, out)

RECURSIVE ApplyFromOriginal(_, _, _)
RECURSIVE ThenFromOriginal(_, _, _, _)
\* A faulty loop: every replacement is applied to the text of the call, not
\* to the result of the one before.
ApplyFromOriginal(text, replacements, i) ==
    ThenFromOriginal(ApplyRule(replacements[i], text), text, replacements, i)

ThenFromOriginal(res, text, replacements, i) ==
    IF ~res.ok THEN Raise
    ELSE IF i = Len(replacements) THEN res
    ELSE ApplyFromOriginal(text, replacements, i + 1)

RECURSIVE ApplyLoop(_, _, _)
RECURSIVE ThenLoop(_, _, _)
\* The loop: each replacement is applied to out, the result of the one before.
ApplyLoop(out, replacements, i) ==
    IF i > Len(replacements) THEN Ok(out)
    ELSE ThenLoop(ApplyRule(replacements[i], out), replacements, i)

\* The rest of the loop after the i-th replacement returned or raised.
ThenLoop(res, replacements, i) ==
    IF res.ok THEN ApplyLoop(res.s, replacements, i + 1) ELSE Raise

\* The transformer with the faulty loop.
apply_replacements_independently(text, replacements) ==
    IF text = <<>> \/ replacements = <<>> THEN Ok(text)
    ELSE ApplyFromOriginal(text, replacements, 1)

\* if not text: return text; the loop; return out.
apply_replacements_to_text(text, replacements) ==
    IF text = <<>> THEN Ok(text) ELSE ApplyLoop(text, replacements, 1)

\* ------------------------------------------------------------- the state

VARIABLES
    tpc,         \* a call of apply_replacements_to_text: "call", "return"
    tText,       \* its text argument
    tRules,      \* its replacements argument
    tResult,     \* what the call returned, or that it raised
    pc,          \* the position of modify_pptx
    filename,    \* file.filename
    payload,     \* the replacements form field, as the JSON value it holds
    rep_objs,    \* the validated replacements
    loadCalled,  \* Presentation(bio) was called
    orig,        \* the presentation as it was loaded
    pres,        \* the presentation, as the walker has changed it so far
    slideIdx,    \* the slide the walker visits next
    applyFault,  \* a text unit's transformation raised during the walk
    saveFault,   \* pres.save raised
    output,      \* the saved presentation, when one was produced
    resp         \* the status of the response, 0 while there is none

vars == <<tpc, tText, tRules, tResult, pc, filename, payload, rep_objs,
          loadCalled, orig, pres, slideIdx, applyFault, saveFault, output, resp>>

textVars == <<tpc, tText, tRules, tResult>>

requestVars == <<pc, filename, payload, rep_objs, loadCalled, orig, pres,
                 slideIdx, applyFault, saveFault, output, resp>>

\* ------------------------------------------------- the inputs of a call

\* Patterns, templates and texts longer than the bounds, for the escapes.
ExtraFinds == {<<BS, "A">>, <<BS, ".">>, <<BS, BS>>, <<"a", ".">>, <<"a", "A">>}
ExtraRepls == {<<BS, BS>>, <<BS, "a">>, <<BS, "A">>}
ExtraTexts == {<<"a", "[", "A">>, <<"A", "a", "A">>}

Finds == Strs(MaxFind) \cup ExtraFinds
Repls == Strs(MaxRepl) \cup ExtraRepls
Texts == Strs(MaxText) \cup ExtraTexts

Rules == {Replacement(f, r, x, c) : f \in Finds, r \in Repls, x \in BOOLEAN, c \in BOOLEAN}

\* The rules of the lists of more than one rule.
ChainRules ==
    { Replacement(<<"a">>, <<"A">>, FALSE, FALSE),
      Replacement(<<"A">>, <<".">>, FALSE, FALSE),
      Replacement(<<"a">>, <<>>, FALSE, TRUE),
      Replacement(<<"a">>, <<BS>>, FALSE, TRUE),
      Replacement(<<"[">>, <<"a">>, TRUE, FALSE),
      Replacement(<<".">>, <<"a", "a">>, TRUE, FALSE),
      Replacement(<<BS, "A">>, <<"a">>, TRUE, FALSE),
      Replacement(<<>>, <<"A">>, FALSE, FALSE) }

RuleLists ==
    {<<r>> : r \in Rules} \cup UNION {[1..k -> ChainRules] : k \in 0..MaxRules}

NoResult == Ok(<<>>)

\* --------------------------------------------------- the request's inputs

\* str.lower, on the letters of the file names too.
LowerChar(c) ==
    CASE c = "A" -> "a" [] c = "D" -> "d" [] c = "P" -> "p"
      [] c = "T" -> "t" [] c = "X" -> "x" [] OTHER -> c

StrLower(s) == [i \in 1..Len(s) |-> LowerChar(s[i])]

EndsWith(s, suffix) ==
    /\ Len(suffix) <= Len(s)
    /\ SubSeq(s, Len(s) - Len(suffix) + 1, Len(s)) = suffix

DotPptx == <<".", "p", "p", "t", "x">>

Filenames ==
    { <<"d", ".", "p", "p", "t", "x">>, <<"D", ".", "P", "P", "T", "X">>,
      <<"d", ".", "p", "d", "f">>, <<"p", "p", "t", "x">>, <<>> }

\* A JSON value of an object's field: absent, a string, a boolean, a number.
JAbsent == [t |-> "absent", s |-> <<>>, b |-> FALSE]
JStr(s) == [t |-> "str", s |-> s, b |-> FALSE]
JBool(b) == [t |-> "bool", s |-> <<>>, b |-> b]
JNum == [t |-> "num", s |-> <<>>, b |-> FALSE]
JNull == [t |-> "null", s |-> <<>>, b |-> FALSE]

\* An element of the list: an object with these fields, or no object.
JObject(find, replace, regex, ignore_case, ignoreCase) ==
    [t |-> "object", find |-> find, replace |-> replace, regex |-> regex,
     ignore_case |-> ignore_case, ignoreCase |-> ignoreCase]

JScalar == [t |-> "scalar", find |-> JAbsent, replace |-> JAbsent, regex |-> JAbsent,
            ignore_case |-> JAbsent, ignoreCase |-> JAbsent]

\* The form field: text that is no JSON, a JSON value that is no list, a list.
JInvalid == [t |-> "invalid", items |-> <<>>]
JNotList == [t |-> "notlist", items |-> <<>>]
JList(items) == [t |-> "list", items |-> items]

Items ==
    { JObject(f, r, x, c[1], c[2]) :
        f \in {JAbsent, JNum, JStr(<<>>), JStr(<<"a">>)},
        r \in {JAbsent, JStr(<<"A">>), JStr(<<BS>>)},
        x \in {JAbsent, JBool(TRUE)},
        c \in {<<JAbsent, JAbsent>>, <<JBool(TRUE), JAbsent>>, <<JAbsent, JBool(TRUE)>>} }
    \cup {JScalar}

GoodItem == JObject(JStr(<<"a">>), JStr(<<"A">>), JAbsent, JAbsent, JAbsent)

Payloads ==
    {JInvalid, JNotList, JList(<<>>)}
    \cup {JList(<<i>>) : i \in Items}
    \cup {JList(<<GoodItem, i>>) : i \in {JScalar, JObject(JAbsent, JStr(<<"A">>), JAbsent, JAbsent, JAbsent)}}

\* A run: its text and its formatting.  A paragraph is a sequence of runs, a
\* text frame a sequence of paragraphs, a table cell a text frame.
Run(text, fmt) == [text |-> text, fmt |-> fmt]

TextShape(paras) == [kind |-> "text", paras |-> paras, rows |-> <<>>]
TableShape(rows) == [kind |-> "table", paras |-> <<>>, rows |-> rows]
Picture == [kind |-> "picture", paras |-> <<>>, rows |-> <<>>]

NoNotes == [present |-> FALSE, paras |-> <<>>]
Notes(paras) == [present |-> TRUE, paras |-> paras]

Slide(shapes, notes) == [shapes |-> shapes, notes |-> notes]

RunTexts == {<<>>, <<"a">>}

SlideCat ==
    { Slide(<<Picture, TextShape(<< <<Run(t1, "bold"), Run(t2, "plain")>> >>)>>, NoNotes) :
        t1 \in RunTexts, t2 \in RunTexts }
    \cup
    { Slide(<<TableShape(<< << << <<Run(t1, "bold"), Run(t2, "plain")>> >>,
                              << <<Run(<<"a">>, "bold")>> >> >> >>)>>, NoNotes) :
        t1 \in RunTexts, t2 \in RunTexts }
    \cup
    { Slide(<<TextShape(<< <<Run(<<>>, "bold")>> >>)>>,
            Notes(<< <<Run(t1, "bold"), Run(t2, "plain")>> >>)) :
        t1 \in RunTexts, t2 \in RunTexts }

Deck(slides) == [wellformed |-> TRUE, slides |-> slides]
Malformed == [wellformed |-> FALSE, slides |-> <<>>]

Uploads == {Malformed} \cup {Deck(s) : s \in UNION {[1..k -> SlideCat] : k \in 0..MaxSlides}}

NoPres == [slides |-> <<>>]
NoOutput == [produced |-> FALSE, slides |-> <<>>]

\* ------------------------------------------------------ Replacement, validated

\* A boolean field with a default: absent and null are falsy, a boolean is
\* itself, anything else fails validation.
BoolFieldOk(v) == v.t \in {"absent", "null", "bool"}
BoolFieldValue(v) == v.t = "bool" /\ v.b

\* Replacement.model_validate(item): find and replace are required strings,
\* regex and ignore_case optional booleans; a field the model does not
\* declare (ignoreCase) is ignored.
ItemValid(item) ==
    /\ item.t = "object"
    /\ item.find.t = "str"
    /\ item.replace.t = "str"
    /\ BoolFieldOk(item.regex)
    /\ BoolFieldOk(item.ignore_case)

ItemRule(item) ==
    Replacement(item.find.s, item.replace.s,
                BoolFieldValue(item.regex), BoolFieldValue(item.ignore_case))

\* A faulty check: the elements of the list are not validated.
PayloadValidListOnly(p) == p.t = "list"

\* json.loads, the list check and the validation of every element: whether
\* the try block of modify_pptx ends without an exception.
PayloadValid(p) ==
    /\ p.t = "list"
    /\ \A i \in 1..Len(p.items) : ItemValid(p.items[i])

\* ----------------------------------------- replace_text_in_presentation

NL == "\n"

RECURSIVE Concat(_, _)
\* The texts of the runs from the i-th on, joined.
Concat(runs, i) ==
    IF i > Len(runs) THEN <<>> ELSE runs[i].text \o Concat(runs, i + 1)

RECURSIVE JoinParas(_, _)
\* cell.text, read: the paragraphs' texts, a line break between two.
JoinParas(paras, p) ==
    IF p > Len(paras) THEN <<>>
    ELSE Concat(paras[p], 1)
         \o (IF p < Len(paras) THEN <<NL>> ELSE <<>>)
         \o JoinParas(paras, p + 1)

CellText(cell) == JoinParas(cell, 1)

RECURSIVE SplitLines(_, _, _)
\* text.split("\n") from position i, cur being the line read so far.
SplitLines(text, i, cur) ==
    IF i > Len(text) THEN <<cur>>
    ELSE IF text[i] = NL THEN <<cur>> \o SplitLines(text, i + 1, <<>>)
    ELSE SplitLines(text, i + 1, Append(cur, text[i]))

\* cell.text, assigned: the cell's paragraphs are removed and one paragraph
\* is added per line of the text, holding one new run when the line is not
\* empty.  A new run has no formatting of its own.
SetCellText(cell, text) ==
    LET lines == SplitLines(text, 1, <<>>)
    IN  [p \in 1..Len(lines) |->
            IF lines[p] = <<>> THEN <<>> ELSE <<Run(lines[p], "default")>>]

\* What a loop of the walker leaves: the container as changed so far, and
\* whether a transformation raised, which ends the loop.
Walked(v, err) == [v |-> v, err |-> err]

RECURSIVE WalkRuns(_, _, _)
RECURSIVE ThenRuns(_, _, _, _)
\* for run in para.runs: the run's text is transformed.
WalkRuns(runs, replacements, i) ==
    IF i > Len(runs) THEN Walked(runs, FALSE)
    ELSE ThenRuns(apply_replacements_to_text(runs[i].text, replacements),
                  runs, replacements, i)

\* A faulty assignment: the paragraph's text is assigned, which leaves one
\* new run in place of the paragraph's runs.
ThenRunsRebuilds(new_text, runs, replacements, i) ==
    IF ~new_text.ok THEN Walked(runs, TRUE)
    ELSE IF new_text.s # runs[i].text
         THEN Walked(<<Run(new_text.s, "default")>>, FALSE)
         ELSE WalkRuns(runs, replacements, i + 1)

\* The run's text is assigned when the transformer changed it.
ThenRuns(new_text, runs, replacements, i) ==
    IF ~new_text.ok THEN Walked(runs, TRUE)
    ELSE IF new_text.s # runs[i].text
         THEN WalkRuns([runs EXCEPT ![i].text = new_text.s], replacements, i + 1)
         ELSE WalkRuns(runs, replacements, i + 1)

RECURSIVE WalkParas(_, _, _)
RECURSIVE ThenParas(_, _, _, _)
\* for para in tf.paragraphs
WalkParas(paras, replacements, p) ==
    IF p > Len(paras) THEN Walked(paras, FALSE)
    ELSE ThenParas(WalkRuns(paras[p], replacements, 1), paras, replacements, p)

ThenParas(w, paras, replacements, p) ==
    IF w.err THEN Walked([paras EXCEPT ![p] = w.v], TRUE)
    ELSE WalkParas([paras EXCEPT ![p] = w.v], replacements, p + 1)

RECURSIVE WalkCells(_, _, _, _)
RECURSIVE ThenCells(_, _, _, _, _)
\* for r in range(len(table.rows)): for c in range(len(table.columns)):
\* the cell's text is read whole and transformed.
WalkCells(rows, replacements, r, c) ==
    IF r > Len(rows) THEN Walked(rows, FALSE)
    ELSE IF c > Len(rows[r]) THEN WalkCells(rows, replacements, r + 1, 1)
    ELSE ThenCells(apply_replacements_to_text(CellText(rows[r][c]), replacements),
                   rows, replacements, r, c)

\* The cell's text is assigned when the transformer changed it.
ThenCells(replaced, rows, replacements, r, c) ==
    IF ~replaced.ok THEN Walked(rows, TRUE)
    ELSE IF replaced.s # CellText(rows[r][c])
         THEN WalkCells([rows EXCEPT ![r][c] = SetCellText(rows[r][c], replaced.s)],
                        replacements, r, c + 1)
         ELSE WalkCells(rows, replacements, r, c + 1)

\* The shape with its rows, or its paragraphs, as a loop left them.
WithRows(shape, w) == Walked([shape EXCEPT !.rows = w.v], w.err)
WithParas(shape, w) == Walked([shape EXCEPT !.paras = w.v], w.err)

\* One shape: a table, a shape with a text frame, or neither.
WalkShape(shape, replacements) ==
    IF shape.kind = "table" THEN WithRows(shape, WalkCells(shape.rows, replacements, 1, 1))
    ELSE IF shape.kind = "text" THEN WithParas(shape, WalkParas(shape.paras, replacements, 1))
    ELSE Walked(shape, FALSE)

RECURSIVE WalkShapes(_, _, _)
RECURSIVE ThenShapes(_, _, _, _)
\* for shape in slide.shapes
WalkShapes(shapes, replacements, k) ==
    IF k > Len(shapes) THEN Walked(shapes, FALSE)
    ELSE ThenShapes(WalkShape(shapes[k], replacements), shapes, replacements, k)

ThenShapes(w, shapes, replacements, k) ==
    IF w.err THEN Walked([shapes EXCEPT ![k] = w.v], TRUE)
    ELSE WalkShapes([shapes EXCEPT ![k] = w.v], replacements, k + 1)

\* slide.notes_slide on a slide that has no notes: the library adds an empty
\* notes slide (one paragraph, no run), or the access raises and the except
\* clause passes.
NotesAccess(notes) ==
    IF notes.present THEN {notes} ELSE {notes, Notes(<< <<>> >>)}

\* The try block of the notes: the runs of the notes' paragraphs; an
\* exception ends the block and is dropped by the except clause.
WalkNotes(notes, replacements) ==
    IF notes.present THEN WithParas(notes, WalkParas(notes.paras, replacements, 1))
    ELSE Walked(notes, FALSE)

\* ------------------------------------------------------------ modify_pptx

\* if not file.filename.lower().endswith(".pptx"): raise HTTPException(400)
CheckExtension ==
    /\ pc = "start"
    /\ IF EndsWith(StrLower(filename), DotPptx)
       THEN pc' = "parse" /\ resp' = resp
       ELSE pc' = "done" /\ resp' = 400
    /\ UNCHANGED <<filename, payload, rep_objs, loadCalled, orig, pres, slideIdx,
                   applyFault, saveFault, output>>
    /\ UNCHANGED textVars

\* The try block that parses and validates the replacements, and its except
\* clause, which answers 400.
ParseReplacements ==
    /\ pc = "parse"
    /\ IF PayloadValid(payload)
       THEN /\ rep_objs' = [i \in 1..Len(payload.items) |-> ItemRule(payload.items[i])]
            /\ pc' = "load"
            /\ resp' = resp
       ELSE /\ rep_objs' = rep_objs
            /\ pc' = "done"
            /\ resp' = 400
    /\ UNCHANGED <<filename, payload, loadCalled, orig, pres, slideIdx,
                   applyFault, saveFault, output>>
    /\ UNCHANGED textVars

\* contents = await file.read(); pres = Presentation(bio), which raises on
\* bytes that are no presentation, and then the answer is 400.
LoadPresentation ==
    /\ pc = "load"
    /\ \E upload \in Uploads :
        /\ loadCalled' = TRUE
        /\ IF upload.wellformed
           THEN /\ orig' = [slides |-> upload.slides]
                /\ pres' = [slides |-> upload.slides]
                /\ slideIdx' = 1
                /\ pc' = "walk"
                /\ resp' = resp
           ELSE /\ UNCHANGED <<orig, pres, slideIdx>>
                /\ pc' = "done"
                /\ resp' = 400
    /\ UNCHANGED <<filename, payload, rep_objs, applyFault, saveFault, output>>
    /\ UNCHANGED textVars

\* The notes of the slide, after its shapes: slide.notes_slide and the try
\* block.  An exception in it is caught and dropped.
WalkSlideNotes(shapes, wn) ==
    /\ pres' = [pres EXCEPT !.slides[slideIdx] = Slide(shapes, wn.v)]
    /\ applyFault' = (applyFault \/ wn.err)
    /\ slideIdx' = slideIdx + 1
    /\ pc' = pc
    /\ resp' = resp

\* The slide, ws being what the loop over its shapes left.  An exception
\* among the shapes leaves the handler, which answers 500.
WalkSlideShapes(slide, ws) ==
    IF ws.err
    THEN /\ pres' = [pres EXCEPT !.slides[slideIdx].shapes = ws.v]
         /\ applyFault' = TRUE
         /\ slideIdx' = slideIdx
         /\ pc' = "done"
         /\ resp' = 500
    ELSE \E notes \in NotesAccess(slide.notes) :
            WalkSlideNotes(ws.v, WalkNotes(notes, rep_objs))

\* One turn of for slide in pres.slides: the shapes, then the notes.
WalkSlide ==
    /\ pc = "walk"
    /\ slideIdx <= Len(pres.slides)
    /\ WalkSlideShapes(pres.slides[slideIdx],
                       WalkShapes(pres.slides[slideIdx].shapes, rep_objs, 1))
    /\ UNCHANGED <<filename, payload, rep_objs, loadCalled, orig, saveFault, output>>
    /\ UNCHANGED textVars

\* replace_text_in_presentation returns after the last slide.
WalkReturn ==
    /\ pc = "walk"
    /\ slideIdx > Len(pres.slides)
    /\ pc' = "save"
    /\ UNCHANGED <<filename, payload, rep_objs, loadCalled, orig, pres, slideIdx,
                   applyFault, saveFault, output, resp>>
    /\ UNCHANGED textVars

\* pres.save(out) and the StreamingResponse; nothing catches an exception of
\* pres.save, and the answer is then 500.
SaveAndRespond ==
    /\ pc = "save"
    /\ \E saved \in BOOLEAN :
        IF saved
        THEN /\ output' = [produced |-> TRUE, slides |-> pres.slides]
             /\ saveFault' = saveFault
             /\ resp' = 200
        ELSE /\ output' = output
             /\ saveFault' = TRUE
             /\ resp' = 500
    /\ pc' = "done"
    /\ UNCHANGED <<filename, payload, rep_objs, loadCalled, orig, pres, slideIdx,
                   applyFault>>
    /\ UNCHANGED textVars

\* A request: a file name and a replacements field.
Init ==
    /\ pc = "start"
    /\ filename \in Filenames
    /\ payload \in Payloads
    /\ rep_objs = <<>>
    /\ loadCalled = FALSE
    /\ orig = NoPres
    /\ pres = NoPres
    /\ slideIdx = 0
    /\ applyFault = FALSE
    /\ saveFault = FALSE
    /\ output = NoOutput
    /\ resp = 0
    /\ tpc = "idle"
    /\ tText = <<>>
    /\ tRules = <<>>
    /\ tResult = NoResult

Next ==
    \/ CheckExtension
    \/ ParseReplacements
    \/ LoadPresentation
    \/ WalkSlide
    \/ WalkReturn
    \/ SaveAndRespond

Spec == Init /\ [][Next]_vars

\* ------------------------------- a call of apply_replacements_to_text

\* The call, whole: the early return on an empty text, the loop, the return.
Transform ==
    /\ tpc = "call"
    /\ tResult' = apply_replacements_to_text(tText, tRules)
    /\ tpc' = "return"
    /\ UNCHANGED <<tText, tRules>>
    /\ UNCHANGED requestVars

TextInit ==
    /\ tpc = "call"
    /\ tText \in Texts
    /\ tRules \in RuleLists
    /\ tResult = NoResult
    /\ pc = "idle"
    /\ filename = <<>>
    /\ payload = JInvalid
    /\ rep_objs = <<>>
    /\ loadCalled = FALSE
    /\ orig = NoPres
    /\ pres = NoPres
    /\ slideIdx = 0
    /\ applyFault = FALSE
    /\ saveFault = FALSE
    /\ output = NoOutput
    /\ resp = 0

TextNext == Transform

TextSpec == TextInit /\ [][TextNext]_vars

\* ======================================================== the claims

Front(R) == SubSeq(R, 1, Len(R) - 1)
Last(R) == R[Len(R)]

\* A rule applied to what the rules before it returned.
AndThen(p, r) == IF p.ok THEN ApplyRule(r, p.s) ELSE Raise

RECURSIVE Chained(_, _)
\* r_n(... r_2(r_1(T)) ...) for R = <<r_1, ..., r_n>>.
Chained(T, R) == IF R = <<>> THEN Ok(T) ELSE AndThen(Chained(T, Front(R)), Last(R))

RECURSIVE ChainedOn(_, _, _)
\* The rules of R from the j-th on, applied in turn to the result p.
ChainedOn(p, R, j) == IF j > Len(R) THEN p ELSE ChainedOn(AndThen(p, R[j]), R, j + 1)

\* Whether f occurs in t at k, the case of letters ignored when fold.
Occurs(t, k, f, fold) ==
    /\ k + Len(f) - 1 <= Len(t)
    /\ \A j \in 1..Len(f) :
          IF fold THEN Lower(t[k + j - 1]) = Lower(f[j]) ELSE t[k + j - 1] = f[j]

\* The first place where f, not empty, occurs in t.
FirstOccurrence(t, f, fold) ==
    CHOOSE k \in 1..Len(t) :
        Occurs(t, k, f, fold) /\ \A j \in 1..(k - 1) : ~Occurs(t, j, f, fold)

RECURSIVE ReplacedAll(_, _, _, _)
\* t with every occurrence of f, not empty, replaced by the text r as it is:
\* what precedes the first occurrence, r, and the rest treated the same way.
ReplacedAll(t, f, r, fold) ==
    IF \E k \in 1..Len(t) : Occurs(t, k, f, fold)
    THEN SubSeq(t, 1, FirstOccurrence(t, f, fold) - 1) \o r
         \o ReplacedAll(SubSeq(t, FirstOccurrence(t, f, fold) + Len(f), Len(t)), f, r, fold)
    ELSE t

TextReturned == tpc = "return"

\* C1, as stated: for every text T and rule list R the transformer returns
\* r_n(... r_2(r_1(T)) ...), each rule applied to the output of the previous.
\* Stated here for the rules whose find is not empty, the rules validation
\* is meant to let through.
C1_ChainedForEveryText ==
    (TextReturned /\ \A i \in 1..Len(tRules) : tRules[i].find # <<>>)
    => tResult = Chained(tText, tRules)

\* C1, amended: for every text T that is not empty the transformer returns
\* r_n(... r_2(r_1(T)) ...); the empty text is returned as it is, whatever
\* the rules.
C1_ChainedForNonEmptyText ==
    TextReturned =>
        tResult = (IF tText = <<>> THEN Ok(<<>>) ELSE Chained(tText, tRules))

\* Rules a -> A and A -> . on the text "a" give ".": the second rule has
\* seen the output of the first.
C1_Witness ==
    /\ TextReturned
    /\ tText = <<"a">>
    /\ tRules = <<Replacement(<<"a">>, <<"A">>, FALSE, FALSE),
                  Replacement(<<"A">>, <<".">>, FALSE, FALSE)>>
    /\ tResult = Ok(<<".">>)

\* C3: a rule with regex = true whose pattern is invalid does not raise: it
\* replaces every occurrence of the raw find text by replace, literally, and
\* the rules after it are applied to that.
C3_InvalidPatternFallsBack ==
    (TextReturned /\ tText # <<>>) =>
        \A i \in 1..Len(tRules) :
            ( /\ tRules[i].regex
              /\ ~PatternOk(tRules[i].find, 1)
              /\ Chained(tText, SubSeq(tRules, 1, i - 1)).ok )
            => tResult =
                 ChainedOn(Ok(ReplacedAll(Chained(tText, SubSeq(tRules, 1, i - 1)).s,
                                          tRules[i].find, tRules[i].replace, FALSE)),
                           tRules, i + 1)

\* find = "[", regex = true, replace = "" on "a[A" gives "aA".
C3_Witness ==
    /\ TextReturned
    /\ tText = <<"a", "[", "A">>
    /\ tRules = <<Replacement(<<"[">>, <<>>, TRUE, FALSE)>>
    /\ tResult = Ok(<<"a", "A">>)

NoOpRules == Len(tRules) >= 1 /\ \A i \in 1..Len(tRules) : tRules[i].find = tRules[i].replace

\* C9, as stated: a rule whose find and replace are the same string, in any
\* mode, leaves the text as it is.
C9_NoOpRuleAnyMode ==
    (TextReturned /\ NoOpRules) => tResult = Ok(tText)

\* C9, amended: a rule whose find and replace are the same string, with
\* regex = false and ignore_case = false, leaves the text as it is.
C9_NoOpRuleLiteralMode ==
    ( /\ TextReturned
      /\ NoOpRules
      /\ \A i \in 1..Len(tRules) : ~tRules[i].regex /\ ~tRules[i].ignore_case )
    => tResult = Ok(tText)

\* A literal case-sensitive rule with find = replace, whose find occurs in
\* the text more than once.
C9_Witness ==
    /\ TextReturned
    /\ Len(tRules) = 1
    /\ tRules[1].find = tRules[1].replace
    /\ ~tRules[1].regex /\ ~tRules[1].ignore_case
    /\ tRules[1].find # <<>>
    /\ \E j, k \in 1..Len(tText) :
          j < k /\ Occurs(tText, j, tRules[1].find, FALSE) /\ Occurs(tText, k, tRules[1].find, FALSE)
    /\ tResult = Ok(tText)

\* C10: a rule with regex = false and ignore_case = true replaces each
\* occurrence of find, whatever its case, by the replace text exactly as
\* supplied, and never raises.
C10_IgnoreCaseLiteral ==
    ( /\ TextReturned
      /\ tText # <<>>
      /\ Len(tRules) = 1
      /\ ~tRules[1].regex /\ tRules[1].ignore_case
      /\ tRules[1].find # <<>> )
    => tResult = Ok(ReplacedAll(tText, tRules[1].find, tRules[1].replace, TRUE))

\* ---------------------------------------------------------- the request

\* The file name does not end in .pptx, whatever the case of its letters.
BadFilename ==
    \/ Len(filename) < 5
    \/ StrLower(SubSeq(filename, Len(filename) - 4, Len(filename))) # DotPptx

\* An element the schema of Replacement refuses.
RefusedItem(item) ==
    \/ item.t # "object"
    \/ item.find.t # "str"
    \/ item.replace.t # "str"
    \/ item.regex.t = "num" \/ item.regex.t = "str"
    \/ item.ignore_case.t = "num" \/ item.ignore_case.t = "str"

\* The payload is no JSON, no list, or holds an element that fails validation.
BadPayload ==
    \/ payload.t # "list"
    \/ \E i \in 1..Len(payload.items) : RefusedItem(payload.items[i])

\* C2: when the file name does not end in the expected suffix, or the rules
\* payload is no valid JSON, no list or fails field validation, the request
\* ends with status 400 before the presentation is loaded or walked, and no
\* output is produced.
C2_ValidationBeforeLoad ==
    (BadFilename \/ BadPayload) =>
        /\ ~loadCalled
        /\ orig = NoPres /\ pres = NoPres /\ slideIdx = 0
        /\ output = NoOutput
        /\ pc \in {"start", "parse", "done"}
        /\ resp = (IF pc = "done" THEN 400 ELSE 0)

\* A request with a good file name and a refused payload has been answered.
C2_Witness ==
    /\ pc = "done"
    /\ ~BadFilename
    /\ BadPayload
    /\ resp = 400
    /\ ~loadCalled

\* replace_text_in_presentation has returned.
WalkerReturned == pc = "save" \/ (pc = "done" /\ (output.produced \/ saveFault))

\* The paragraphs and runs of a text frame, without the runs' texts.
FrameOf(paras) ==
    [p \in 1..Len(paras) |-> [i \in 1..Len(paras[p]) |-> paras[p][i].fmt]]

\* A shape without its texts: its kind, the frame of its paragraphs, the
\* frame of every cell of its rows.
ShapeOf(shape) ==
    [kind |-> shape.kind,
     paras |-> FrameOf(shape.paras),
     rows |-> [r \in 1..Len(shape.rows) |->
                 [c \in 1..Len(shape.rows[r]) |-> FrameOf(shape.rows[r][c])]]]

\* A slide without its texts.
SlideOf(slide) ==
    [shapes |-> [k \in 1..Len(slide.shapes) |-> ShapeOf(slide.shapes[k])],
     notes |-> [present |-> slide.notes.present, paras |-> FrameOf(slide.notes.paras)]]

\* A shape without its texts and without what its cells hold.
OuterShapeOf(shape) ==
    [kind |-> shape.kind,
     paras |-> FrameOf(shape.paras),
     rows |-> [r \in 1..Len(shape.rows) |-> Len(shape.rows[r])]]

FrameTransformed(now, before) ==
    /\ Len(now) = Len(before)
    /\ \A p \in 1..Len(before) :
        /\ Len(now[p]) = Len(before[p])
        /\ \A i \in 1..Len(before[p]) :
              Ok(now[p][i].text) = apply_replacements_to_text(before[p][i].text, rep_objs)

ShapeTransformed(now, before) ==
    /\ now.kind = before.kind
    /\ before.kind = "text" => FrameTransformed(now.paras, before.paras)
    /\ before.kind = "table" =>
        /\ Len(now.rows) = Len(before.rows)
        /\ \A r \in 1..Len(before.rows) :
            /\ Len(now.rows[r]) = Len(before.rows[r])
            /\ \A c \in 1..Len(before.rows[r]) :
                  Ok(CellText(now.rows[r][c]))
                    = apply_replacements_to_text(CellText(before.rows[r][c]), rep_objs)
    /\ before.kind = "picture" => now = before

SlideTransformed(now, before) ==
    /\ Len(now.shapes) = Len(before.shapes)
    /\ \A k \in 1..Len(before.shapes) : ShapeTransformed(now.shapes[k], before.shapes[k])
    /\ before.notes.present =>
        /\ now.notes.present
        /\ FrameTransformed(now.notes.paras, before.notes.paras)

\* C5: after the walker every run of a text frame and of a slide's notes
\* holds the transformer's result for the run's own text, every table cell
\* the transformer's result for the cell's text, and a shape with neither is
\* as it was.
\* Stated here for the rules whose find is not empty.
C5_EveryTextUnitTransformed ==
    (WalkerReturned /\ \A i \in 1..Len(rep_objs) : rep_objs[i].find # <<>>) =>
        /\ Len(pres.slides) = Len(orig.slides)
        /\ \A n \in 1..Len(orig.slides) : SlideTransformed(pres.slides[n], orig.slides[n])

\* C6: a failure during the walk or the save is answered with status 500,
\* never with success.
\* Stated here for the rules whose find is not empty.
C6_FailuresSurface ==
    ( /\ pc = "done"
      /\ applyFault \/ saveFault
      /\ \A i \in 1..Len(rep_objs) : rep_objs[i].find # <<>> )
    => resp = 500

\* The try block of the replacements has been left.
Validated == pc \in {"load", "walk", "save"} \/ (pc = "done" /\ ~BadFilename)

\* The payload was let through: the handler went on to load the file.
Accepted == pc \in {"load", "walk", "save"} \/ loadCalled

\* An element the rule model is to refuse: no object, or find missing, no
\* string or empty.
ToBeRefused(item) ==
    \/ item.t # "object"
    \/ item.find.t # "str"
    \/ item.find.s = <<>>

\* C7: a payload that is no list, or holds an element that is no object or
\* whose find is missing, no string or empty, is answered with status 400,
\* and no rule with an empty find reaches the transformer.
C7_EmptyFindRefused ==
    /\ \A i \in 1..Len(rep_objs) : rep_objs[i].find # <<>>
    /\ ( /\ Validated
         /\ (payload.t # "list" \/ \E i \in 1..Len(payload.items) : ToBeRefused(payload.items[i])) )
       => (resp = 400 /\ ~Accepted)

\* An element that gives find, not empty, and leaves out or gives the others.
WellFormed(item) ==
    /\ item.t = "object"
    /\ item.find.t = "str" /\ item.find.s # <<>>
    /\ item.replace.t \in {"absent", "str"}
    /\ item.regex.t \in {"absent", "bool"}
    /\ item.ignore_case.t \in {"absent", "bool"}
    /\ item.ignoreCase.t \in {"absent", "bool"}

\* The rule such an element stands for: replace "" when left out, regex and
\* the case flag false when left out, the case flag under either name.
RuleMeant(item) ==
    Replacement(item.find.s, item.replace.s, BoolFieldValue(item.regex),
                BoolFieldValue(item.ignore_case) \/ BoolFieldValue(item.ignoreCase))

\* C8: an element that gives only find is accepted and stands for the rule
\* with replace = "", regex = false and the case flag false; the case flag
\* is honoured under the name ignore_case and under the name ignoreCase.
C8_DefaultsAndAliases ==
    ( /\ Validated
      /\ payload.t = "list"
      /\ \A i \in 1..Len(payload.items) : WellFormed(payload.items[i]) )
    => /\ Accepted
       /\ Len(rep_objs) = Len(payload.items)
       /\ \A i \in 1..Len(payload.items) : rep_objs[i] = RuleMeant(payload.items[i])

====
